---- MODULE Spec2Model ----
(***************************************************************************)
(* Model of the two compatibility shims of swift-query:                    *)
(*   Sources/SQLiteSnapshotShims/sqlite_snapshot_shims.c                   *)
(*       four stubs of SQLite's snapshot API, compiled when                *)
(*       SQLITE_ENABLE_SNAPSHOT is not defined;                            *)
(*   Sources/SwiftThreadingShim/SwiftThreadingShim.cpp                     *)
(*       swift::threading::fatal, compiled on Linux.                       *)
(* The process runs Threads threads.  A thread that is not inside fatal    *)
(* may call any stub; a stub reads and writes nothing, so a stub call is   *)
(* one step.  fatal is four statements (three writes to stderr and the     *)
(* abort), one step each, so that the statements of concurrent threads     *)
(* interleave as they do in the process.                                   *)
(* The error stream is open or was closed before the run (stderrOpen); a   *)
(* write to a closed stream fails and the handler, which ignores the       *)
(* result of its writes, goes on.                                          *)
(***************************************************************************)
EXTENDS Integers, Sequences, FiniteSets, TLC

\* ------------------------------------------------------------------ bounds
NThreads == 2       \* threads of the process
MaxHandle == 1      \* non-null values a sqlite3_snapshot* can take

\* ------------------------------------------------------- program constants
SQLITE_OK == 0
SQLITE_ERROR == 1
NULL == 0

Threads == 1..NThreads
Handles == NULL..MaxHandle              \* values of sqlite3_snapshot*
Conns == {NULL, 1}                      \* values of sqlite3*
Schemas == {"NULL", "main"}             \* values of const char *zSchema
Slots == 1..(MaxHandle + 1)             \* the caller's sqlite3_snapshot* variables
SlotRefs == {NULL} \cup Slots           \* values of sqlite3_snapshot**
StubOps == {"open", "get", "free", "cmp"}

VARIABLES
    snapshotEnabled,  \* build: SQLITE_ENABLE_SNAPSHOT is defined
    linux,            \* build: __linux__ is defined
    stderrOpen,       \* the error stream takes writes
    alive,            \* the process has not been terminated
    cause,            \* [sig, by]: what terminated the process, and which thread
    pc,               \* per thread: "run", or the line of fatal it is about to execute
    farg,             \* per thread: the arguments of its call of fatal
    wlog,             \* per thread: the texts its call of fatal handed to stderr
    stderr,           \* the error stream: the chunks delivered, in order
    slots,            \* caller memory: the sqlite3_snapshot* variables
    heap,             \* the snapshot handles that are allocated
    dbState,          \* the state of each connection
    lastCall          \* the stub call the last step made (NoCall: it made none)

vars == <<snapshotEnabled, linux, stderrOpen, alive, cause, pc, farg, wlog, stderr,
          slots, heap, dbState, lastCall>>
envVars == <<snapshotEnabled, linux, stderrOpen>>
procVars == <<alive, cause, pc, farg, wlog, stderr>>
memVars == <<slots, heap, dbState>>

\* ------------------------------------------------- conditional compilation
SnapshotStubNames ==
    {"sqlite3_snapshot_open", "sqlite3_snapshot_get",
     "sqlite3_snapshot_free", "sqlite3_snapshot_cmp"}

\* faulty variant: sqlite3_snapshot_cmp left outside the #if block
SnapshotShimSymbols_CmpOutside(enableSnapshot) ==
    IF ~enableSnapshot THEN SnapshotStubNames ELSE {"sqlite3_snapshot_cmp"}

\* #if !defined(SQLITE_ENABLE_SNAPSHOT) ... #endif
SnapshotShimSymbols(enableSnapshot) ==
    IF ~enableSnapshot THEN SnapshotStubNames ELSE {}

\* #if defined(__linux__) ... #endif
ThreadingShimSymbols(isLinux) ==
    IF isLinux THEN {"swift::threading::fatal"} ELSE {}

Defined == SnapshotShimSymbols(snapshotEnabled) \cup ThreadingShimSymbols(linux)

\* ------------------------------------------------------------ the stubs
NoCall == [op |-> "none", p1 |-> NULL, p2 |-> NULL, ret |-> <<>>, again |-> FALSE]

\* The record of a stub call on the snapshot arguments p1, p2 that returned ret
\* (<<>> for a void function); again: the step before made the same call.
Called(op, p1, p2, ret) ==
    [op |-> op, p1 |-> p1, p2 |-> p2, ret |-> ret,
     again |-> lastCall.op = op /\ lastCall.p1 = p1 /\ lastCall.p2 = p2]

\* slots, heap and dbState at the start of the process: slot i holds the
\* handle value i - 1 (slot 1 holds NULL, the others stale non-null values),
\* nothing is allocated, every connection is idle
InitialSlots == [i \in Slots |-> i - 1]
InitialDb == [c \in Conns \ {NULL} |-> "idle"]

\* faulty variant: an open that works, and moves the connection to the snapshot
sqlite3_snapshot_open_Real(db, zSchema, pSnapshot) ==
    /\ lastCall' = Called("open", pSnapshot, NULL,
                          IF db # NULL /\ pSnapshot # NULL
                          THEN <<SQLITE_OK>> ELSE <<SQLITE_ERROR>>)
    /\ dbState' = IF db # NULL /\ pSnapshot # NULL
                  THEN [dbState EXCEPT ![db] = "snapshot"] ELSE dbState
    /\ UNCHANGED <<slots, heap, procVars>>

\* int sqlite3_snapshot_open(sqlite3 *db, const char *zSchema, sqlite3_snapshot *pSnapshot)
sqlite3_snapshot_open(db, zSchema, pSnapshot) ==
    /\ lastCall' = Called("open", pSnapshot, NULL, <<SQLITE_ERROR>>)
    /\ UNCHANGED <<memVars, procVars>>

\* faulty variant: a get that clears the output slot before failing
sqlite3_snapshot_get_ClearsSlot(db, zSchema, ppSnapshot) ==
    /\ lastCall' = Called("get", ppSnapshot, NULL, <<SQLITE_ERROR>>)
    /\ slots' = IF ppSnapshot # NULL THEN [slots EXCEPT ![ppSnapshot] = NULL] ELSE slots
    /\ UNCHANGED <<heap, dbState, procVars>>

\* faulty variant: a get that works the second time it is asked for the same snapshot
sqlite3_snapshot_get_Stateful(db, zSchema, ppSnapshot) ==
    LET c == Called("get", ppSnapshot, NULL, <<SQLITE_ERROR>>)
        hit == c.again /\ ppSnapshot # NULL /\ MaxHandle >= 1
    IN  /\ lastCall' = IF hit THEN [c EXCEPT !.ret = <<SQLITE_OK>>] ELSE c
        /\ slots' = IF hit THEN [slots EXCEPT ![ppSnapshot] = 1] ELSE slots
        /\ heap' = IF hit THEN heap \cup {1} ELSE heap
        /\ UNCHANGED <<dbState, procVars>>

\* int sqlite3_snapshot_get(sqlite3 *db, const char *zSchema, sqlite3_snapshot **ppSnapshot)
sqlite3_snapshot_get(db, zSchema, ppSnapshot) ==
    /\ lastCall' = Called("get", ppSnapshot, NULL, <<SQLITE_ERROR>>)
    /\ UNCHANGED <<memVars, procVars>>

\* faulty variant: a free that releases the handle, and crashes on one that is not allocated
sqlite3_snapshot_free_Real(pSnapshot) ==
    /\ lastCall' = Called("free", pSnapshot, NULL, <<>>)
    /\ IF pSnapshot \in heap
       THEN heap' = heap \ {pSnapshot} /\ UNCHANGED <<alive, cause>>
       ELSE heap' = heap /\ alive' = FALSE /\ cause' = [sig |-> "SIGSEGV", by |-> 0]
    /\ UNCHANGED <<slots, dbState, pc, farg, wlog, stderr>>

\* void sqlite3_snapshot_free(sqlite3_snapshot *pSnapshot)
sqlite3_snapshot_free(pSnapshot) ==
    /\ lastCall' = Called("free", pSnapshot, NULL, <<>>)
    /\ UNCHANGED <<memVars, procVars>>

\* faulty variant: a cmp that reports equal handles as equal
sqlite3_snapshot_cmp_Equal(p1, p2) ==
    /\ lastCall' = Called("cmp", p1, p2,
                          IF p1 = p2 THEN <<SQLITE_OK>> ELSE <<SQLITE_ERROR>>)
    /\ UNCHANGED <<memVars, procVars>>

\* int sqlite3_snapshot_cmp(sqlite3_snapshot *p1, sqlite3_snapshot *p2)
sqlite3_snapshot_cmp(p1, p2) ==
    /\ lastCall' = Called("cmp", p1, p2, <<SQLITE_ERROR>>)
    /\ UNCHANGED <<memVars, procVars>>

\* A thread outside fatal may call a stub the build defines.
CanCall(symbol) ==
    /\ alive
    /\ symbol \in Defined
    /\ \E t \in Threads : pc[t] = "run"


CallOpen ==
    \E db \in Conns, z \in Schemas, p \in Handles :
        /\ CanCall("sqlite3_snapshot_open")
        /\ sqlite3_snapshot_open(db, z, p)
        /\ UNCHANGED envVars

CallGet ==
    \E db \in Conns, z \in Schemas, pp \in SlotRefs :
        /\ CanCall("sqlite3_snapshot_get")
        /\ sqlite3_snapshot_get(db, z, pp)
        /\ UNCHANGED envVars

\* free is handed any handle value: NULL, a stale or uninitialized value, or
\* the content of a slot (slots hold values of Handles)
CallFree ==
    \E p \in Handles :
        /\ CanCall("sqlite3_snapshot_free")
        /\ sqlite3_snapshot_free(p)
        /\ UNCHANGED envVars

CallCmp ==
    \E p1 \in Handles, p2 \in Handles :
        /\ CanCall("sqlite3_snapshot_cmp")
        /\ sqlite3_snapshot_cmp(p1, p2)
        /\ UNCHANGED envVars

\* ------------------------------------------------------- the fatal handler
Lit(s) == [k |-> "lit", s |-> s]        \* literal text of a format string
Conv(c) == [k |-> "conv", s |-> c]      \* a conversion: %d, %s, or %% (c = "%")
IntArg(i) == [t |-> "int", i |-> i, s |-> ""]
StrArg(s) == [t |-> "str", i |-> 0, s |-> s]

NoArgs == [fmt |-> <<>>, args |-> <<>>]
BadState42 == [fmt |-> <<Lit("bad state "), Conv("d")>>, args |-> <<IntArg(42)>>]
MixedArgs ==
    [fmt |-> <<Conv("s"), Lit(" failed: "), Conv("d"), Conv("%")>>,
     args |-> <<StrArg("lock"), IntArg(11)>>]
TooFewArgs == [fmt |-> <<Lit("bad state "), Conv("d")>>, args |-> <<>>]

\* the calls of fatal the threads make
FatalCalls == {BadState42, MixedArgs, TooFewArgs}

PREFIX == "SwiftThreading fatal: "
Indeterminate == "<indeterminate>"

\* The conversions of the format string find arguments of their types; a call
\* that is not well formed has undefined behaviour in vfprintf.
RECURSIVE WellFormed(_, _)
WellFormed(fmt, args) ==
    IF fmt = <<>> THEN TRUE
    ELSE LET h == Head(fmt) IN
         IF h.k = "lit" \/ h.s = "%" THEN WellFormed(Tail(fmt), args)
         ELSE /\ args # <<>>
              /\ Head(args).t = (IF h.s = "d" THEN "int" ELSE "str")
              /\ WellFormed(Tail(fmt), Tail(args))

\* faulty variant: the format string is written as it is, nothing substituted
RECURSIVE Format_Verbatim(_, _)
Format_Verbatim(fmt, args) ==
    IF fmt = <<>> THEN ""
    ELSE LET h == Head(fmt) IN
         (IF h.k = "lit" THEN h.s ELSE "%" \o h.s) \o Format_Verbatim(Tail(fmt), args)

\* What vfprintf writes for a well-formed call: literal text as it is, %% as %,
\* %d and %s as the next argument, in order; arguments left over are ignored.
RECURSIVE Format(_, _)
Format(fmt, args) ==
    IF fmt = <<>> THEN ""
    ELSE LET h == Head(fmt) IN
         IF h.k = "lit" THEN h.s \o Format(Tail(fmt), args)
         ELSE IF h.s = "%" THEN "%" \o Format(Tail(fmt), args)
         ELSE IF h.s = "d" THEN ToString(Head(args).i) \o Format(Tail(fmt), Tail(args))
         ELSE Head(args).s \o Format(Tail(fmt), Tail(args))

\* faulty variant: a write that lands in front of what the stream already holds
Write_Prepend(t, text) ==
    /\ stderr' = IF stderrOpen THEN <<[by |-> t, text |-> text]>> \o stderr ELSE stderr
    /\ wlog' = [wlog EXCEPT ![t] = Append(@, text)]

\* One write to stderr by thread t: the stream takes it, or (closed) the write
\* fails and the caller, which ignores the result, goes on.
Write(t, text) ==
    /\ stderr' = IF stderrOpen THEN Append(stderr, [by |-> t, text |-> text]) ELSE stderr
    /\ wlog' = [wlog EXCEPT ![t] = Append(@, text)]

\* fatal touches nothing of the snapshot stubs
FatalFrame == lastCall' = NoCall /\ UNCHANGED <<envVars, memVars>>

\* void fatal(const char *message, ...): the call
CallFatal ==
    \E t \in Threads, c \in FatalCalls :
        /\ alive
        /\ "swift::threading::fatal" \in Defined
        /\ pc[t] = "run"
        /\ pc' = [pc EXCEPT ![t] = "L13"]
        /\ farg' = [farg EXCEPT ![t] = c]
        /\ UNCHANGED <<alive, cause, wlog, stderr>>
        /\ FatalFrame

\* std::fprintf(stderr, "SwiftThreading fatal: ");
FatalPrefix(t) ==
    /\ alive
    /\ pc[t] = "L13"
    /\ Write(t, PREFIX)
    /\ pc' = [pc EXCEPT ![t] = "L17"]
    /\ UNCHANGED <<alive, cause, farg>>
    /\ FatalFrame

\* va_start; std::vfprintf(stderr, message, args); va_end
FatalMessage(t) ==
    /\ alive
    /\ pc[t] = "L17"
    /\ IF WellFormed(farg[t].fmt, farg[t].args)
       THEN /\ Write(t, Format(farg[t].fmt, farg[t].args))
            /\ pc' = [pc EXCEPT ![t] = "L20"]
            /\ UNCHANGED <<alive, cause, farg>>
       ELSE \* undefined behaviour: some text is written, or the read faults
            \/ /\ Write(t, Indeterminate)
               /\ pc' = [pc EXCEPT ![t] = "L20"]
               /\ UNCHANGED <<alive, cause, farg>>
            \/ /\ alive' = FALSE
               /\ cause' = [sig |-> "SIGSEGV", by |-> t]
               /\ UNCHANGED <<pc, farg, wlog, stderr>>
    /\ FatalFrame

\* faulty variant: the abort comes before the newline is written
FatalNewline_AbortsFirst(t) ==
    /\ alive
    /\ pc[t] = "L20"
    /\ alive' = FALSE
    /\ cause' = [sig |-> "SIGABRT", by |-> t]
    /\ UNCHANGED <<pc, farg, wlog, stderr>>
    /\ FatalFrame

\* std::fprintf(stderr, "\n");
FatalNewline(t) ==
    /\ alive
    /\ pc[t] = "L20"
    /\ Write(t, "\n")
    /\ pc' = [pc EXCEPT ![t] = "L21"]
    /\ UNCHANGED <<alive, cause, farg>>
    /\ FatalFrame

\* faulty variant: the handler returns to its caller instead of aborting
FatalAbort_Returns(t) ==
    /\ alive
    /\ pc[t] = "L21"
    /\ pc' = [pc EXCEPT ![t] = "run"]
    /\ farg' = [farg EXCEPT ![t] = NoArgs]
    /\ wlog' = [wlog EXCEPT ![t] = <<>>]
    /\ UNCHANGED <<alive, cause, stderr>>
    /\ FatalFrame

\* std::abort();
FatalAbort(t) ==
    /\ alive
    /\ pc[t] = "L21"
    /\ alive' = FALSE
    /\ cause' = [sig |-> "SIGABRT", by |-> t]
    /\ UNCHANGED <<pc, farg, wlog, stderr>>
    /\ FatalFrame

FatalStep(t) == FatalPrefix(t) \/ FatalMessage(t) \/ FatalNewline(t) \/ FatalAbort(t)

StepPrefix == \E t \in Threads : FatalPrefix(t)
StepMessage == \E t \in Threads : FatalMessage(t)
StepNewline == \E t \in Threads : FatalNewline(t)
StepAbort == \E t \in Threads : FatalAbort(t)

\* ------------------------------------------------------- the specification
Init ==
    /\ snapshotEnabled \in BOOLEAN
    /\ linux \in BOOLEAN
    /\ stderrOpen \in BOOLEAN
    /\ alive = TRUE
    /\ cause = [sig |-> "none", by |-> 0]
    /\ pc = [t \in Threads |-> "run"]
    /\ farg = [t \in Threads |-> NoArgs]
    /\ wlog = [t \in Threads |-> <<>>]
    /\ stderr = <<>>
    /\ slots = InitialSlots
    /\ heap = {}
    /\ dbState = InitialDb
    /\ lastCall = NoCall

Next ==
    \/ CallOpen
    \/ CallGet
    \/ CallFree
    \/ CallCmp
    \/ CallFatal
    \/ StepPrefix
    \/ StepMessage
    \/ StepNewline
    \/ StepAbort

Spec == Init /\ [][Next]_vars

\* A thread that is runnable runs: a thread inside fatal takes its next step.
FairSpec == Spec /\ \A t \in Threads : WF_vars(FatalStep(t))

\* ------------------------------------------------------------ observations
InFatal(t) == pc[t] # "run"
AbortedBy(t) == ~alive /\ cause = [sig |-> "SIGABRT", by |-> t]

\* the text on the error stream
RECURSIVE Concat(_)
Concat(chunks) == IF chunks = <<>> THEN "" ELSE Head(chunks).text \o Concat(Tail(chunks))
StderrText == Concat(stderr)

\* the texts thread t put on the error stream, in the stream's order
ChunksBy(t) ==
    LET mine == SelectSeq(stderr, LAMBDA c : c.by = t)
    IN  [i \in 1..Len(mine) |-> mine[i].text]

\* every chunk on the error stream is thread t's
Sole(t) == \A i \in 1..Len(stderr) : stderr[i].by = t

IsPrefix(a, b) == Len(a) <= Len(b) /\ a = SubSeq(b, 1, Len(a))

\* what a well-formed call of fatal is to write
Expected(c) == <<PREFIX, Format(c.fmt, c.args), "\n">>

\* ------------------------------------------------------------------ claims

\* C1: whatever the connection, the schema name and the output slot (null ones
\* included), a call of sqlite3_snapshot_get returns SQLITE_ERROR, leaves every
\* output slot holding what it held before, and allocates no snapshot handle.
C1_GetFailsSlotUnchanged ==
    [][lastCall'.op = "get" =>
          /\ lastCall'.ret = <<SQLITE_ERROR>>
          /\ slots' = slots
          /\ heap' = heap /\ heap' = {}]_vars

C1_Witness ==
    /\ lastCall.op = "get"
    /\ lastCall.p1 # NULL
    /\ slots[lastCall.p1] # NULL
    /\ lastCall.ret = <<SQLITE_ERROR>>

\* C2: whatever its arguments, a call of sqlite3_snapshot_open returns
\* SQLITE_ERROR, writes nothing to the error stream, allocates nothing, and
\* leaves the snapshot argument and the connection as they were.
C2_OpenFailsNoEffect ==
    [][lastCall'.op = "open" =>
          /\ lastCall'.ret = <<SQLITE_ERROR>>
          /\ UNCHANGED <<stderr, wlog>>
          /\ UNCHANGED <<heap, slots>>
          /\ dbState' = dbState]_vars

C2_Witness ==
    /\ lastCall.op = "open"
    /\ lastCall.p1 # NULL
    /\ lastCall.ret = <<SQLITE_ERROR>>
    /\ dbState = InitialDb

\* C3: sqlite3_snapshot_cmp returns SQLITE_ERROR for every pair of handle
\* values (null ones, stale ones, twice the same one), and that is the value
\* sqlite3_snapshot_open and sqlite3_snapshot_get return.
C3_CmpFailsSameStatus ==
    /\ lastCall.op = "cmp" => lastCall.ret = <<SQLITE_ERROR>>
    /\ lastCall.op \in {"open", "get"} => lastCall.ret = <<SQLITE_ERROR>>

C3_Witness ==
    /\ lastCall.op = "cmp"
    /\ lastCall.p1 = lastCall.p2
    /\ lastCall.ret = <<SQLITE_ERROR>>

\* C4: a call of sqlite3_snapshot_free, on any handle value (NULL, the content
\* of a slot a failed get left alone) and also when repeated on the same
\* handle, returns nothing and changes nothing: the process lives on, the error
\* stream, the threads and the memory are as before.
C4_FreeNoEffect ==
    [][lastCall'.op = "free" =>
          /\ alive'
          /\ lastCall'.ret = <<>>
          /\ UNCHANGED <<slots, heap, dbState>>
          /\ UNCHANGED <<alive, cause, pc, farg, wlog, stderr>>]_vars

C4_Witness ==
    /\ lastCall.op = "free"
    /\ lastCall.again
    /\ \E i \in Slots : slots[i] = lastCall.p1
    /\ alive

\* C5: a call of fatal whose arguments fit its format string hands to the error
\* stream the prefix, then the formatted message, then the newline, in that
\* order and nothing else; on an open stream these are the chunks it put there;
\* its abort comes only after the three writes, and it writes nothing after it.
C5_PrefixMessageNewlineThenAbort ==
    \A t \in Threads :
        /\ Len(wlog[t]) = (CASE pc[t] = "run" -> 0 [] pc[t] = "L13" -> 0
                             [] pc[t] = "L17" -> 1 [] pc[t] = "L20" -> 2
                             [] pc[t] = "L21" -> 3)
        /\ AbortedBy(t) => pc[t] = "L21"
        /\ InFatal(t) /\ WellFormed(farg[t].fmt, farg[t].args) =>
              /\ IsPrefix(wlog[t], Expected(farg[t]))
              /\ AbortedBy(t) => wlog[t] = Expected(farg[t])
              /\ stderrOpen => ChunksBy(t) = wlog[t]
              /\ ~alive /\ cause.by = t => cause.sig = "SIGABRT"

C5_Witness ==
    \E t \in Threads :
        /\ AbortedBy(t)
        /\ stderrOpen
        /\ farg[t] = MixedArgs
        /\ ChunksBy(t) = <<PREFIX, "lock failed: 11%", "\n">>

\* C6: fatal never returns.  Whatever its format string and arguments, and
\* whether the error stream takes its writes or not, a thread that entered
\* fatal never runs its caller again, the process comes to be terminated, and
\* in a terminated process nothing executes: no stub call, no statement.
C6_FatalNeverReturns ==
    /\ [][\A t \in Threads : InFatal(t) => InFatal(t)']_vars
    /\ [][~alive => UNCHANGED vars]_vars
    /\ (\E t \in Threads : InFatal(t)) ~> ~alive

C6_Witness ==
    \E t \in Threads :
        /\ AbortedBy(t)
        /\ ~stderrOpen
        /\ wlog[t] = Expected(BadState42)
        /\ stderr = <<>>

\* C7: fatal substitutes its arguments for the conversions of the format
\* string, several arguments of mixed types included: the one call
\* fatal("bad state %d", 42) of a process leaves exactly
\* "SwiftThreading fatal: bad state 42\n" on the (open) error stream and then
\* aborts, and fatal("%s failed: %d%%", "lock", 11) leaves
\* "SwiftThreading fatal: lock failed: 11%\n".
C7_FormatSubstitutes ==
    \A t \in Threads :
        AbortedBy(t) /\ stderrOpen /\ Sole(t) =>
            /\ farg[t] = BadState42 => StderrText = "SwiftThreading fatal: bad state 42\n"
            /\ farg[t] = MixedArgs => StderrText = "SwiftThreading fatal: lock failed: 11%\n"

C7_Witness ==
    \E t \in Threads :
        /\ AbortedBy(t)
        /\ farg[t] = BadState42
        /\ Sole(t)
        /\ StderrText = "SwiftThreading fatal: bad state 42\n"

\* the chunks of thread t lie side by side on the error stream
Contiguous(t) ==
    \A i \in 1..Len(stderr), j \in 1..Len(stderr), k \in 1..Len(stderr) :
        i < j /\ j < k /\ stderr[i].by = t /\ stderr[k].by = t => stderr[j].by = t

\* the message chunk of thread t's call: what vfprintf writes
MessageOf(t) ==
    IF WellFormed(farg[t].fmt, farg[t].args)
    THEN Format(farg[t].fmt, farg[t].args) ELSE Indeterminate

\* C8 as claimed: with other threads running, among them threads that call
\* fatal at the same time, the prefix, the message and the newline of one call
\* are on the error stream in that order as one uninterrupted line.
C8_UninterruptedLine ==
    \A t \in Threads :
        stderrOpen /\ pc[t] = "L21" =>
            /\ ChunksBy(t) = <<PREFIX, MessageOf(t), "\n">>
            /\ Contiguous(t)

\* C8 as amended: with other threads running, among them threads that call
\* fatal at the same time, the chunks of one call are on the error stream in
\* the order prefix, message, newline, none lost and none repeated; chunks of
\* other threads may lie between them.
C8_OrderKeptPerCall ==
    \A t \in Threads :
        stderrOpen =>
            /\ IsPrefix(ChunksBy(t), <<PREFIX, MessageOf(t), "\n">>)
            /\ Len(ChunksBy(t)) = Len(wlog[t])
            /\ pc[t] = "L21" => ChunksBy(t) = <<PREFIX, MessageOf(t), "\n">>

C8_Witness ==
    \E t \in Threads, u \in Threads :
        /\ t # u
        /\ pc[t] = "L21" /\ pc[u] = "L21"
        /\ ~Contiguous(t)
        /\ ChunksBy(t) = <<PREFIX, MessageOf(t), "\n">>
        /\ ChunksBy(u) = <<PREFIX, MessageOf(u), "\n">>

\* what each stub returns when it is the first call of the process
FirstResult(op) == IF op = "free" THEN <<>> ELSE <<SQLITE_ERROR>>

\* C9: the stubs keep no state.  After any sequence of stub calls, interleaved
\* in any way with the steps of other threads, a stub call returns what it
\* returns as a first call, the slots, the heap and the connections are as at
\* the start, and a get has failed and left no handle to free or to compare.
C9_StubsStateless ==
    /\ lastCall.op \in StubOps => lastCall.ret = FirstResult(lastCall.op)
    /\ slots = InitialSlots
    /\ heap = {}
    /\ dbState = InitialDb
    /\ lastCall.op = "get" => lastCall.ret # <<SQLITE_OK>>

C9_Witness ==
    /\ lastCall.op = "get"
    /\ lastCall.again
    /\ lastCall.p1 # NULL
    /\ lastCall.ret = <<SQLITE_ERROR>>
    /\ \E t \in Threads : pc[t] = "L20"

\* C10: the build decides, once, what is defined: the four snapshot stubs
\* exactly when SQLITE_ENABLE_SNAPSHOT is not defined, never some of them
\* only, and fatal exactly on Linux; a stub runs only in a build without the
\* flag, and this fatal only in a Linux build.
C10_StaticPerBuild ==
    /\ Defined \cap SnapshotStubNames = (IF snapshotEnabled THEN {} ELSE SnapshotStubNames)
    /\ Cardinality(Defined \cap SnapshotStubNames) \in {0, 4}
    /\ ("swift::threading::fatal" \in Defined) = linux
    /\ lastCall.op # "none" => ~snapshotEnabled
    /\ (\E t \in Threads : InFatal(t)) => linux

C10_Witness ==
    /\ snapshotEnabled
    /\ linux
    /\ Defined = {"swift::threading::fatal"}
    /\ \E t \in Threads : AbortedBy(t)

====
